---- MODULE Spec2Model ----
(***************************************************************************)
(* GADMA: the pool orchestrator (gadma/core.py) and the genetic algorithm  *)
(* engine (gadma/genetic_algorithm.py).                                    *)
(*                                                                         *)
(* One coordinator process (main) submits params.repeats runs to a pool of *)
(* params.processes worker processes.  Every run owns a GA engine, whose   *)
(* candidates are objects on the heap of the run; the shared dictionary    *)
(* maps a run's prefix to a reference to the published copy.               *)
(***************************************************************************)
EXTENDS Integers, Sequences, FiniteSets, TLC

\* ------------------------------------------------------------------ bounds
\* Largest params.repeats and params.processes explored.
MaxRepeats == 2
MaxProcesses == 2
\* A candidate is a parameter assignment and its fitness value.
MaxParam == 1
MaxFitness == 1

VARIABLES
    params,          \* [processes, repeats]: options.parse_args()
    main_pc,         \* position of main()
    report_pc,       \* position inside print_best_solution_now
    pool_state,      \* "running" | "terminated"
    pool_map,        \* the AsyncResult of map_async
    main_sigint,     \* SIGINT delivered to the coordinator, not yet raised
    error_message,   \* argument of support.error, << >> while none was made
    pc,              \* position of every run
    cur_iteration,   \* GA.cur_iteration of every run
    stop_checks,     \* how often every run has evaluated GA.is_stoped
    model,           \* GA.model of every run: a reference
    best_model,      \* GA.best_model of every run: a reference
    heap,            \* heap[n][a]: the candidate object at address a of run n
    shared_dict,     \* Manager().dict(): prefix -> reference
    sigint_pending,  \* runs whose worker process has an unhandled SIGINT
    exception,       \* the exception a run raised, NoException otherwise
    all_models_data, \* local of print_best_solution_now: prefix -> candidate
    all_models,      \* local of print_best_solution_now: the sorted list
    first_iteration, \* GA.first_iteration of every run
    log_file,        \* GADMA_GA.log of every run: the index in its last line
    final_models,    \* GA.final_models of every run, Unset while no attribute
    pickle_file,     \* the file final_models_pickle in out_dir of every run
    pickle_call,     \* the last call of GA.pickle_final_models and its outcome
    fixed_values,    \* the demographic model dm: fixed variable -> its value
    dm_call          \* the last call of a method of dm and its outcome

vars == <<params, main_pc, report_pc, pool_state, pool_map, main_sigint,
          error_message, pc, cur_iteration, stop_checks, model, best_model,
          heap, shared_dict, sigint_pending, exception, all_models_data,
          all_models, first_iteration, log_file, final_models, pickle_file,
          pickle_call, fixed_values, dm_call>>

\* ------------------------------------------------------------- data model
\* Demographic_model instances as far as the engine looks at them.
Candidates == [params : 0..MaxParam, fitness : 0..MaxFitness]

get_fitness_func_value(c) == c.fitness

\* An address holding no object.
Free == [params |-> -1, fitness |-> -1]

\* Python's None as a reference.
None == <<0, 0>>

\* Addresses of one run's heap: room for model, best_model, the published
\* copy and the object under construction.
Addresses == 1..4

\* The run numbers of main: i + 1 for i in range(params.repeats).
Numbers == {i + 1 : i \in 0..(params.repeats - 1)}

\* str(number) for a non-negative integer: its decimal digits.
RECURSIVE str(_)
str(n) == IF n < 10 THEN <<n>> ELSE str(n \div 10) \o <<n % 10>>

\* GA(params, prefix=str(number))
GA_prefix_shared(number) == str(1)
GA_prefix(number) == str(number)

\* The object a reference points to.
Deref(ref) == heap[ref[1]][ref[2]]

\* What an exception raised inside a run says; NoException: none was raised.
ExceptionTexts == {"IOError", "ValueError"}
NoException == ""

\* A message handed to support.error: its text, and the run number a
\* 'GA number N: ' prefix attributes it to (0: the message has no prefix).
\* An attribute the object does not have; a file that does not exist; a file
\* opened for writing and closed with nothing written.
Unset == [set |-> FALSE, value |-> << >>]
NoFile == [exists |-> FALSE, data |-> << >>]
EmptyFile == [exists |-> TRUE, data |-> << >>]

\* pickle_final_models(load=None): no path given.
NoPath == 0
NoCall == [op |-> "none", load |-> NoPath, error |-> NoException]

\* cPickle: the bytes written for an object, and the object read from them.
pickle_dump(obj) == <<"pickle", obj>>
pickle_load(data) == data[2]

Message(number, text) == [number |-> number, text |-> text]
NoMessage == Message(0, "")

\* ------------------------------------------------------------------- heap
\* The lowest free address of run n's heap.
Alloc(n) ==
    CHOOSE a \in Addresses :
        /\ heap[n][a] = Free
        /\ \A b \in Addresses : heap[n][b] = Free => a <= b

\* The object of run n's heap that the shared dictionary refers to, if any
\* (a run publishes under one prefix only).
EntryOf(sd, n) ==
    IF \E k \in DOMAIN sd : sd[k][1] = n
    THEN sd[CHOOSE k \in DOMAIN sd : sd[k][1] = n]
    ELSE None

\* The references into run n's heap: engine first, dictionary last.
RootList(m, b, sd, n) == <<m[n], b[n], EntryOf(sd, n)>>

\* Addresses are not observable: after every step the live objects of a heap
\* are renumbered in the order of RootList, so that states which differ only
\* in the addresses are one state.  Aliased references stay aliased.
NewAddress(L, r) ==
    LET i == CHOOSE i \in 1..Len(L) :
                 L[i] = r /\ \A j \in 1..(i - 1) : L[j] # r
    IN  Cardinality({L[j] : j \in 1..(i - 1)} \ {None}) + 1

Moved(m, b, sd, r) ==
    IF r = None THEN None
    ELSE <<r[1], NewAddress(RootList(m, b, sd, r[1]), r)>>

\* The engine fields m, b, the dictionary sd and the heap h become the next
\* state: unreachable objects are reclaimed, the others renumbered.
Commit(m, b, sd, h) ==
    /\ model' = [n \in DOMAIN m |-> Moved(m, b, sd, m[n])]
    /\ best_model' = [n \in DOMAIN b |-> Moved(m, b, sd, b[n])]
    /\ shared_dict' = [k \in DOMAIN sd |-> Moved(m, b, sd, sd[k])]
    /\ heap' = [n \in DOMAIN h |->
                  LET L == RootList(m, b, sd, n)
                  IN  [a \in Addresses |->
                        IF \E i \in 1..Len(L) :
                               L[i] # None /\ NewAddress(L, L[i]) = a
                        THEN h[n][(CHOOSE r \in {L[i] : i \in 1..Len(L)} :
                                      r # None /\ NewAddress(L, r) = a)[2]]
                        ELSE Free]]

\* copy.deepcopy(ref) evaluated by run n: a new object with the same value.
copy_deepcopy(n, ref) == <<n, Alloc(n)>>

\* The heap once `new` holds a copy of the object at `ref`.
WithCopy(new, ref) == [heap EXCEPT ![new[1]][new[2]] = Deref(ref)]

\* The dictionary after d[key] = ref.
SetItem(d, key, ref) ==
    [k \in DOMAIN d \cup {key} |-> IF k = key THEN ref ELSE d[k]]

\* ------------------------------------------------------------------- pool
ExecutingPcs ==
    {"first_iteration", "first_best", "first_publish",
     "loop_iteration", "loop_compare", "loop_publish"}

Executing(n) == pc[n] \in ExecutingPcs

\* A run a worker process can go on with: the pool lives and the process has
\* no signal handler to run first.
CanStep(n) ==
    /\ pool_state = "running"
    /\ Executing(n)
    /\ n \notin sigint_pending

Pending == [state |-> "pending", value |-> << >>]

\* ------------------------------------------------------------------- Init
Init ==
    /\ params \in [processes : 1..MaxProcesses, repeats : 0..MaxRepeats]
    /\ main_pc = "started"
    /\ report_pc = "none"
    /\ pool_state = "running"
    /\ pool_map = Pending
    /\ main_sigint = FALSE
    /\ error_message = NoMessage
    /\ pc = [n \in Numbers |-> "unsubmitted"]
    /\ cur_iteration = [n \in Numbers |-> 0]
    /\ stop_checks = [n \in Numbers |-> 0]
    /\ model = [n \in Numbers |-> None]
    /\ best_model = [n \in Numbers |-> None]
    /\ heap = [n \in Numbers |-> [a \in Addresses |-> Free]]
    /\ shared_dict = << >>
    /\ sigint_pending = {}
    /\ exception = [n \in Numbers |-> NoException]
    /\ all_models_data = << >>
    /\ all_models = << >>
    /\ first_iteration = [n \in Numbers |-> 0]
    /\ log_file = [n \in Numbers |-> << >>]
    /\ final_models = [n \in Numbers |-> Unset]
    /\ pickle_file = [n \in Numbers |-> NoFile]
    /\ pickle_call = [n \in Numbers |-> NoCall]
    /\ fixed_values = << >>
    /\ dm_call = [op |-> "none", var |-> "", error |-> NoException]

\* ------------------------------------------------------------ worker side
\* What only GA.pickle_final_models and GA.__init__ touch.
checkpoint_vars == <<first_iteration, final_models, pickle_file, pickle_call>>

\* The demographic model of the tests, which no step of the search touches.
dm_vars == <<fixed_values, dm_call>>

\* What a step of a run leaves alone on the coordinator's side.
coordinator_vars ==
    <<params, main_pc, report_pc, pool_state, pool_map, main_sigint,
      error_message, all_models_data, all_models>>

\* A pool process takes the next task of the map and enters
\* run_genetic_algorithm: GA.__init__ and the head of GA.run.  (map_async
\* cuts a list of at most 4 * processes tasks into chunks of one task.)
StartRun(n) ==
    /\ pool_state = "running"
    /\ pc[n] = "queued"
    /\ \A m \in Numbers : m < n => pc[m] # "queued"
    /\ Cardinality({m \in Numbers : Executing(m)}) < params.processes
    /\ pc' = [pc EXCEPT ![n] = "first_iteration"]
    /\ cur_iteration' = [cur_iteration EXCEPT ![n] = 0]
    /\ stop_checks' = [stop_checks EXCEPT ![n] = 0]
    /\ model' = [model EXCEPT ![n] = None]
    /\ best_model' = [best_model EXCEPT ![n] = None]
    /\ first_iteration' = [first_iteration EXCEPT ![n] = 0]
    /\ final_models' = [final_models EXCEPT ![n] = Unset]
    /\ log_file' = [log_file EXCEPT ![n] = << >>]
    /\ UNCHANGED <<coordinator_vars, heap, shared_dict, sigint_pending,
                   exception, pickle_file, pickle_call, dm_vars>>

\* GA.run_one_iteration: self.model = self.get_random_model()
\* and the log line that starts with self.cur_iteration.
run_one_iteration(n, new_model) ==
    LET ref == <<n, Alloc(n)>>
    IN  /\ Commit([model EXCEPT ![n] = ref], best_model, shared_dict,
                  [heap EXCEPT ![n][ref[2]] = new_model])
        /\ log_file' = [log_file EXCEPT ![n] = <<cur_iteration[n]>>]

\* GA.run, line 139.
FirstIteration(n) ==
    /\ CanStep(n)
    /\ pc[n] = "first_iteration"
    /\ \E c \in Candidates : run_one_iteration(n, c)
    /\ pc' = [pc EXCEPT ![n] = "first_best"]
    /\ UNCHANGED <<stop_checks, dm_vars, checkpoint_vars,
                   coordinator_vars, cur_iteration, sigint_pending,
                   exception>>

\* GA.run, line 140: self.best_model = copy.deepcopy(self.model)
FirstBest(n) ==
    /\ CanStep(n)
    /\ pc[n] = "first_best"
    /\ LET ref == copy_deepcopy(n, model[n])
       IN  Commit(model, [best_model EXCEPT ![n] = ref], shared_dict,
                  WithCopy(ref, model[n]))
    /\ pc' = [pc EXCEPT ![n] = "first_publish"]
    /\ UNCHANGED <<stop_checks, dm_vars, checkpoint_vars, log_file,
                   coordinator_vars, cur_iteration, sigint_pending,
                   exception>>

\* The reference GA.run stores under its prefix: a deep copy of best_model.
PublishedAlias(n) == best_model[n]
Published(n) == copy_deepcopy(n, best_model[n])

\* shared_dict[self.prefix] = copy.deepcopy(self.best_model)
PublishOnce(n) ==
    IF GA_prefix(n) \in DOMAIN shared_dict
    THEN Commit(model, best_model, shared_dict, heap)
    ELSE LET ref == Published(n)
         IN  Commit(model, best_model,
                    SetItem(shared_dict, GA_prefix(n), ref),
                    WithCopy(ref, best_model[n]))
Publish(n) ==
    LET ref == Published(n)
    IN  Commit(model, best_model, SetItem(shared_dict, GA_prefix(n), ref),
               WithCopy(ref, best_model[n]))

\* GA.run, lines 141-147: the first publication, then cur_iteration += 1.
FirstPublish(n) ==
    /\ CanStep(n)
    /\ pc[n] = "first_publish"
    /\ Publish(n)
    /\ cur_iteration' = [cur_iteration EXCEPT ![n] = @ + 1]
    /\ pc' = [pc EXCEPT ![n] = "loop_iteration"]
    /\ UNCHANGED <<stop_checks, dm_vars, checkpoint_vars, log_file,
                   coordinator_vars, sigint_pending, exception>>

\* GA.run, line 150, inside `while True`.
LoopIteration(n) ==
    /\ CanStep(n)
    /\ pc[n] = "loop_iteration"
    /\ \E c \in Candidates : run_one_iteration(n, c)
    /\ pc' = [pc EXCEPT ![n] = "loop_compare"]
    /\ UNCHANGED <<stop_checks, dm_vars, checkpoint_vars,
                   coordinator_vars, cur_iteration, sigint_pending,
                   exception>>

\* GA.run, line 151: the test that lets the new candidate replace the best.
IsWorse(best, new) ==
    get_fitness_func_value(best) < get_fitness_func_value(new)
IsNotWorse(best, new) ==
    get_fitness_func_value(best) >= get_fitness_func_value(new)
IsBetter(best, new) ==
    get_fitness_func_value(best) > get_fitness_func_value(new)

\* GA.mean_time: what self.work_time is divided by.
mean_time_divisor_completed(n) == cur_iteration[n] - first_iteration[n]
mean_time_divisor(n) == cur_iteration[n] + 1 - first_iteration[n]

\* GA.is_stoped: "Check if we need to stop."
is_stoped(n) == FALSE

\* GA.run, lines 149-152: `while True` goes on without a call of is_stoped.
LoopCompare(n) ==
    /\ CanStep(n)
    /\ pc[n] = "loop_compare"
    /\ IF IsBetter(Deref(best_model[n]), Deref(model[n]))
       THEN LET ref == copy_deepcopy(n, model[n])
            IN  /\ Commit(model, [best_model EXCEPT ![n] = ref],
                          shared_dict, WithCopy(ref, model[n]))
                /\ pc' = [pc EXCEPT ![n] = "loop_publish"]
       ELSE /\ pc' = [pc EXCEPT ![n] = "loop_iteration"]
            /\ UNCHANGED <<model, best_model, shared_dict, heap>>
    /\ UNCHANGED <<stop_checks, dm_vars, checkpoint_vars, log_file,
                   coordinator_vars, cur_iteration, sigint_pending,
                   exception>>

\* GA.run, lines 153-156: publication after an improvement.
LoopPublish(n) ==
    /\ CanStep(n)
    /\ pc[n] = "loop_publish"
    /\ Publish(n)
    /\ pc' = [pc EXCEPT ![n] = "loop_iteration"]
    /\ UNCHANGED <<stop_checks, dm_vars, checkpoint_vars, log_file,
                   coordinator_vars, cur_iteration, sigint_pending,
                   exception>>

\* What run_genetic_algorithm lets out when GA.run raises e: the exception
\* itself (the try/except that prefixed the run number is commented out).
Propagated(number, e) == Message(0, e)

\* An uncaught exception inside GA.run (get_random_model, the log file, the
\* output directory): the pool stores the first failure of the map as its
\* result, the engine is dropped and the process is free for the next task.
RunRaise(n) ==
    /\ CanStep(n)
    /\ pc[n] \in {"first_iteration", "loop_iteration"}
    /\ \E e \in ExceptionTexts :
        /\ exception' = [exception EXCEPT ![n] = e]
        /\ pool_map' = IF pool_map.state = "pending"
                       THEN [state |-> "failure", value |-> Propagated(n, e)]
                       ELSE pool_map
    /\ pc' = [pc EXCEPT ![n] = "raised"]
    /\ Commit([model EXCEPT ![n] = None], [best_model EXCEPT ![n] = None],
              shared_dict, heap)
    /\ UNCHANGED <<stop_checks, dm_vars, checkpoint_vars, log_file,
                   params, main_pc, report_pc, pool_state, main_sigint,
                   error_message, cur_iteration, sigint_pending,
                   all_models_data, all_models>>

\* SIGINT reaches the worker process that executes run n.
WorkerSigint(n) ==
    /\ pool_state = "running"
    /\ Executing(n)
    /\ n \notin sigint_pending
    /\ sigint_pending' = sigint_pending \cup {n}
    /\ UNCHANGED <<stop_checks, dm_vars, checkpoint_vars, log_file,
                   coordinator_vars, pc, cur_iteration, model, best_model,
                   heap, shared_dict, exception>>

\* What the handler installed by worker_init does to the position of the
\* run: sig_int is `pass`.
sig_int_default(p) == "raised"
sig_int(p) == p

\* The worker process runs its SIGINT handler.
HandleSigint(n) ==
    /\ pool_state = "running"
    /\ n \in sigint_pending
    /\ sigint_pending' = sigint_pending \ {n}
    /\ pc' = [pc EXCEPT ![n] = sig_int(@)]
    /\ UNCHANGED <<stop_checks, dm_vars, checkpoint_vars, log_file,
                   coordinator_vars, cur_iteration, model, best_model, heap,
                   shared_dict, exception>>

\* ------------------------------------------------------------ checkpoints
\* os.path.isfile(load): the path leads to the checkpoint of a run whose
\* file was created.
os_path_isfile_any(load) == TRUE
os_path_isfile(load) ==
    load \in DOMAIN pickle_file /\ pickle_file[load].exists

\* What GA.pickle_final_models(load) raises.  open(pickle_file, "wb")
\* succeeds in the run's directory; self.final_models is an attribute only
\* after a load; cPickle.load finds no pickle in a file without data.
pickle_final_models_error(n, load) ==
    IF load = NoPath
    THEN IF final_models[n].set THEN NoException ELSE "AttributeError"
    ELSE IF ~os_path_isfile(load) THEN NoException
    ELSE IF load \notin DOMAIN pickle_file \/ ~pickle_file[load].exists
    THEN "IOError"
    ELSE IF pickle_file[load].data = << >> THEN "EOFError"
    ELSE NoException

\* GA.pickle_final_models: without a path it writes final_models to
\* out_dir/final_models_pickle, with a path it reads final_models from there.
pickle_final_models(n, load) ==
    /\ pickle_file' =
          IF load # NoPath THEN pickle_file
          ELSE IF final_models[n].set
          THEN [pickle_file EXCEPT ![n] =
                   [exists |-> TRUE,
                    data |-> pickle_dump(final_models[n].value)]]
          ELSE [pickle_file EXCEPT ![n] = EmptyFile]
    /\ final_models' =
          IF /\ load # NoPath
             /\ os_path_isfile(load)
             /\ pickle_final_models_error(n, load) = NoException
          THEN [final_models EXCEPT ![n] =
                   [set |-> TRUE,
                    value |-> pickle_load(pickle_file[load].data)]]
          ELSE final_models
    /\ pickle_call' =
          [pickle_call EXCEPT ![n] =
              [op |-> IF load = NoPath THEN "save" ELSE "load",
               load |-> load,
               error |-> pickle_final_models_error(n, load)]]

\* ------------------------------------------------------- coordinator side
Terminal == {"completed", "failed", "cancelled"}

\* pool.terminate(): the worker processes are killed and their engines with
\* them, queued tasks are dropped.
pool_terminate_skipped ==
    UNCHANGED <<pool_state, pc, sigint_pending, model, best_model,
                shared_dict, heap>>
pool_terminate ==
    /\ pool_state' = "terminated"
    /\ pc' = [n \in Numbers |->
                IF Executing(n) \/ pc[n] = "queued"
                THEN "terminated" ELSE pc[n]]
    /\ sigint_pending' = {}
    /\ Commit([n \in Numbers |-> None], [n \in Numbers |-> None],
              shared_dict, heap)

\* support.error(message) called from the handler `at`: the message goes to
\* stderr and the process exits.
support_error(message, at) ==
    /\ error_message' = message
    /\ main_pc' = at

\* main, lines 126-132: pool.map_async over the runs, pool.close().  The
\* result of an empty map is ready at once.
Submit ==
    /\ main_pc = "started"
    /\ ~main_sigint
    /\ pc' = [n \in Numbers |-> "queued"]
    /\ pool_map' = IF params.repeats = 0
                   THEN [state |-> "success", value |-> NoMessage]
                   ELSE Pending
    /\ main_pc' = "polling"
    /\ UNCHANGED <<stop_checks, dm_vars, checkpoint_vars, log_file,
                   params, report_pc, pool_state, main_sigint, error_message,
                   cur_iteration, model, best_model, heap, shared_dict,
                   sigint_pending, exception, all_models_data, all_models>>

\* main, lines 138-145: pool_map.get times out, the interim report starts.
WaitTimeout ==
    /\ main_pc = "polling"
    /\ ~main_sigint
    /\ pool_map.state = "pending"
    /\ main_pc' = "interim"
    /\ report_pc' = "call"
    /\ UNCHANGED <<stop_checks, dm_vars, checkpoint_vars, log_file,
                   params, pool_state, pool_map, main_sigint, error_message,
                   pc, cur_iteration, model, best_model, heap, shared_dict,
                   sigint_pending, exception, all_models_data, all_models>>

\* main, lines 138-140 and 149: pool_map.get returns, the final report
\* starts.
WaitSuccess ==
    /\ main_pc = "polling"
    /\ ~main_sigint
    /\ pool_map.state = "success"
    /\ main_pc' = "final"
    /\ report_pc' = "call"
    /\ UNCHANGED <<stop_checks, dm_vars, checkpoint_vars, log_file,
                   params, pool_state, pool_map, main_sigint, error_message,
                   pc, cur_iteration, model, best_model, heap, shared_dict,
                   sigint_pending, exception, all_models_data, all_models>>

\* main, lines 146-148: pool_map.get raises the exception of a run.
WaitFailureRetry ==
    /\ main_pc = "polling"
    /\ ~main_sigint
    /\ pool_map.state = "failure"
    /\ main_pc' = "interim"
    /\ report_pc' = "call"
    /\ UNCHANGED <<stop_checks, dm_vars, checkpoint_vars, log_file,
                   params, pool_state, pool_map, main_sigint,
                   error_message, pc, cur_iteration, model, best_model, heap,
                   shared_dict, sigint_pending, exception, all_models_data,
                   all_models>>
WaitFailure ==
    /\ main_pc = "polling"
    /\ ~main_sigint
    /\ pool_map.state = "failure"
    /\ pool_terminate
    /\ support_error(pool_map.value, "failed")
    /\ UNCHANGED <<stop_checks, dm_vars, checkpoint_vars, log_file,
                   params, report_pc, pool_map, main_sigint, cur_iteration,
                   exception, all_models_data, all_models>>

\* The user's interrupt: SIGINT goes to the coordinator and to the worker
\* processes of its process group.
UserInterrupt ==
    /\ main_pc \notin Terminal
    /\ ~main_sigint
    /\ main_sigint' = TRUE
    /\ sigint_pending' = IF pool_state = "running"
                         THEN sigint_pending \cup {n \in Numbers : Executing(n)}
                         ELSE sigint_pending
    /\ UNCHANGED <<stop_checks, dm_vars, checkpoint_vars, log_file,
                   params, main_pc, report_pc, pool_state, pool_map,
                   error_message, pc, cur_iteration, model, best_model, heap,
                   shared_dict, exception, all_models_data, all_models>>

\* main, lines 163-165: KeyboardInterrupt is raised inside the try block.
KeyboardInterrupt ==
    /\ main_pc \notin Terminal
    /\ main_sigint
    /\ main_sigint' = FALSE
    /\ pool_terminate
    /\ support_error(Message(0, "KeyboardInterrupt"), "cancelled")
    /\ report_pc' = "none"
    /\ all_models_data' = << >>
    /\ all_models' = << >>
    /\ UNCHANGED <<stop_checks, dm_vars, checkpoint_vars, log_file,
                   params, pool_map, cur_iteration, exception>>

\* ------------------------------------------------ print_best_solution_now
\* Where main goes on when print_best_solution_now returns.
AfterReport == IF main_pc = "interim" THEN "polling" ELSE "finishing"

\* Lines 77-81 without the return of lines 78-79.
ReportSnapshotAlways ==
    /\ main_pc \in {"interim", "final"}
    /\ ~main_sigint
    /\ report_pc = "call"
    /\ report_pc' = "sort"
    /\ all_models_data' = [k \in DOMAIN shared_dict |-> Deref(shared_dict[k])]
    /\ UNCHANGED <<stop_checks, dm_vars, checkpoint_vars, log_file,
                   params, main_pc, pool_state, pool_map,
                   main_sigint, error_message, pc, cur_iteration, model,
                   best_model, heap, shared_dict, sigint_pending, exception,
                   all_models>>
\* Lines 77-79: all_models_data = dict(shared_dict); nothing to report when
\* it is empty.
ReportSnapshot ==
    /\ main_pc \in {"interim", "final"}
    /\ ~main_sigint
    /\ report_pc = "call"
    /\ LET data == [k \in DOMAIN shared_dict |-> Deref(shared_dict[k])]
       IN  IF DOMAIN data = {}
           THEN /\ report_pc' = "none"
                /\ main_pc' = AfterReport
                /\ UNCHANGED all_models_data
           ELSE /\ report_pc' = "sort"
                /\ all_models_data' = data
                /\ UNCHANGED main_pc
    /\ UNCHANGED <<stop_checks, dm_vars, checkpoint_vars, log_file,
                   params, pool_state, pool_map, main_sigint, error_message,
                   pc, cur_iteration, model, best_model, heap, shared_dict,
                   sigint_pending, exception, all_models>>

\* The orders in which a dictionary with the keys S can be iterated.
Orders(S) ==
    {o \in [1..Cardinality(S) -> S] :
        \A i, j \in 1..Cardinality(S) : o[i] = o[j] => i = j}

\* One step of a stable sort: x goes behind the items that are not greater.
InsertSorted(t, x) ==
    LET k == Cardinality({i \in 1..Len(t) :
                 get_fitness_func_value(t[i][2])
                     <= get_fitness_func_value(x[2])})
    IN  SubSeq(t, 1, k) \o <<x>> \o SubSeq(t, k + 1, Len(t))

\* sorted(all_models, key=lambda x: x[1].get_fitness_func_value())
unsorted(s) == s
RECURSIVE sorted(_)
sorted(s) ==
    IF s = << >> THEN << >>
    ELSE InsertSorted(sorted(SubSeq(s, 1, Len(s) - 1)), s[Len(s)])

\* Lines 80-81 with the items read from the registry itself, not from the
\* copy of line 77.
ReportSortLive ==
    /\ main_pc \in {"interim", "final"}
    /\ ~main_sigint
    /\ report_pc = "sort"
    /\ \E o \in Orders(DOMAIN shared_dict) :
        all_models' = sorted([i \in DOMAIN o |->
                                <<o[i], Deref(shared_dict[o[i]])>>])
    /\ report_pc' = "print"
    /\ UNCHANGED <<stop_checks, dm_vars, checkpoint_vars, log_file,
                   params, main_pc, pool_state, pool_map,
                   main_sigint, error_message, pc, cur_iteration, model,
                   best_model, heap, shared_dict, sigint_pending, exception,
                   all_models_data>>
\* Lines 80-81: the (run, model) pairs in the dictionary's order, sorted.
ReportSort ==
    /\ main_pc \in {"interim", "final"}
    /\ ~main_sigint
    /\ report_pc = "sort"
    /\ \E o \in Orders(DOMAIN all_models_data) :
        all_models' = sorted([i \in DOMAIN o |-> <<o[i], all_models_data[o[i]]>>])
    /\ report_pc' = "print"
    /\ UNCHANGED <<stop_checks, dm_vars, checkpoint_vars, log_file,
                   params, main_pc, pool_state, pool_map, main_sigint,
                   error_message, pc, cur_iteration, model, best_model, heap,
                   shared_dict, sigint_pending, exception, all_models_data>>

\* Lines 83-91: the time stamp and print_set_of_models; the call returns.
ReportPrint ==
    /\ main_pc \in {"interim", "final"}
    /\ ~main_sigint
    /\ report_pc = "print"
    /\ report_pc' = "none"
    /\ main_pc' = AfterReport
    /\ all_models_data' = << >>
    /\ all_models' = << >>
    /\ UNCHANGED <<stop_checks, dm_vars, checkpoint_vars, log_file,
                   params, pool_state, pool_map, main_sigint, error_message,
                   pc, cur_iteration, model, best_model, heap, shared_dict,
                   sigint_pending, exception>>

\* main, lines 151-161: '--Finish pipeline--' and the closing messages.
Finish ==
    /\ main_pc = "finishing"
    /\ ~main_sigint
    /\ main_pc' = "completed"
    /\ UNCHANGED <<stop_checks, dm_vars, checkpoint_vars, log_file,
                   params, report_pc, pool_state, pool_map, main_sigint,
                   error_message, pc, cur_iteration, model, best_model, heap,
                   shared_dict, sigint_pending, exception, all_models_data,
                   all_models>>

\* ------------------------------------------------------------------- Next
Next ==
    \/ Submit
    \/ WaitTimeout
    \/ WaitSuccess
    \/ WaitFailure
    \/ UserInterrupt
    \/ KeyboardInterrupt
    \/ ReportSnapshot
    \/ ReportSort
    \/ ReportPrint
    \/ Finish
    \/ \E n \in Numbers : StartRun(n)
    \/ \E n \in Numbers : FirstIteration(n)
    \/ \E n \in Numbers : FirstBest(n)
    \/ \E n \in Numbers : FirstPublish(n)
    \/ \E n \in Numbers : LoopIteration(n)
    \/ \E n \in Numbers : LoopCompare(n)
    \/ \E n \in Numbers : LoopPublish(n)
    \/ \E n \in Numbers : RunRaise(n)
    \/ \E n \in Numbers : WorkerSigint(n)
    \/ \E n \in Numbers : HandleSigint(n)

Spec == Init /\ [][Next]_vars

TypeOK ==
    /\ main_pc \in {"started", "polling", "interim", "final", "finishing"}
                       \cup Terminal
    /\ report_pc \in {"none", "call", "sort", "print"}
    /\ pool_state \in {"running", "terminated"}
    /\ \A n \in Numbers :
        pc[n] \in ExecutingPcs
                      \cup {"unsubmitted", "queued", "raised", "terminated"}

\* The holder of a published entry changes it in place (the scenario of the
\* deep-copy isolation property).
MutatePublished(k, c) ==
    /\ k \in DOMAIN shared_dict
    /\ Deref(shared_dict[k]) # c
    /\ heap' = [heap EXCEPT ![shared_dict[k][1]][shared_dict[k][2]] = c]
    /\ UNCHANGED <<stop_checks, dm_vars, checkpoint_vars, log_file,
                   coordinator_vars, pc, cur_iteration, model,
                   best_model, shared_dict, sigint_pending, exception>>

NextObs ==
    \/ Next
    \/ \E n \in Numbers, c \in Candidates : MutatePublished(GA_prefix(n), c)

\* The engine of run n is asked to save or to load its checkpoint between two
\* steps of its run; what the call raises is kept with the call.
PickleFinalModels(n, load) ==
    /\ CanStep(n)
    /\ pickle_final_models(n, load)
    /\ UNCHANGED <<stop_checks, coordinator_vars, pc, cur_iteration, model,
                   best_model, heap, shared_dict, sigint_pending, exception,
                   first_iteration, log_file, dm_vars>>

NextCheckpoint ==
    \/ Next
    \/ \E n \in Numbers, load \in {NoPath} \cup (1..MaxRepeats) :
           PickleFinalModels(n, load)

\* The program with at most one run: what concerns one engine and its entry
\* is explored here over the larger candidate sets.
InitOne == Init /\ params.repeats <= 1

SpecOne == InitOne /\ [][Next]_vars

\* The program together with a holder that mutates published entries.  An
\* entry and the engine it is copied from belong to one run.
InitObs == InitOne

SpecObs == InitObs /\ [][NextObs]_vars

\* The program with one run whose engine is asked for checkpoints.
InitCheckpoint == InitOne

SpecCheckpoint == InitCheckpoint /\ [][NextCheckpoint]_vars

\* The program with one pool process, scheduled fairly: the coordinator goes
\* on when it can, the pool hands a queued task to a process that is free,
\* and the operating system lets a worker process make its next step.  The
\* user's interrupt, a signal and an exception of a run are never owed.
InitFair == Init /\ params.processes = 1

Fairness ==
    /\ WF_vars(Submit)
    /\ WF_vars(WaitTimeout)
    /\ WF_vars(WaitSuccess)
    /\ WF_vars(WaitFailure)
    /\ WF_vars(KeyboardInterrupt)
    /\ WF_vars(ReportSnapshot)
    /\ WF_vars(ReportSort)
    /\ WF_vars(ReportPrint)
    /\ WF_vars(Finish)
    /\ \A n \in 1..MaxRepeats :
          /\ WF_vars(n \in Numbers /\ StartRun(n))
          /\ WF_vars(n \in Numbers /\ FirstIteration(n))
          /\ WF_vars(n \in Numbers /\ FirstBest(n))
          /\ WF_vars(n \in Numbers /\ FirstPublish(n))
          /\ WF_vars(n \in Numbers /\ LoopIteration(n))
          /\ WF_vars(n \in Numbers /\ LoopCompare(n))
          /\ WF_vars(n \in Numbers /\ LoopPublish(n))
          /\ WF_vars(n \in Numbers /\ HandleSigint(n))

SpecFair == InitFair /\ [][Next]_vars /\ Fairness

\* ------------------------------------------------------ demographic model
\* The variables of test_fix_vars: the model dm is
\*   add_epoch(Tp, [nu1F], dyn_args=[SudDyn]); add_split(0, [nu1F, nu2B]);
\*   add_epoch(T, [nu1F, nu2F], [[None, m], [m, None]], ['Sud', Dyn])
\* and nu3 is a variable outside of it.
dm_variables == {"nu1F", "nu2B", "nu2F", "m", "Tp", "T", "Dyn", "SudDyn"}
DynamicVariables == {"Dyn", "SudDyn"}
AllVariables == dm_variables \cup {"nu3"}

\* The values a variable is fixed to.
PossibleValues(var) ==
    IF var \in DynamicVariables THEN {"Sud", "Exp"} ELSE {"1", "3"}

\* The values by name handed to get_number_of_parameters and fix_dynamics,
\* as far as dynamics are concerned; dic is the one of the test.
Dics == [DynamicVariables -> {"Sud", "Exp"}]
dic == [Dyn |-> "Exp", SudDyn |-> "Sud"]

\* The size a population has when an epoch with the dynamics variable
\* starts: nu2B, set by the split, for Dyn; the first epoch has none.
init_size_args == [Dyn |-> "nu2B"]

\* The value the model uses for a variable: the fixed one if it is fixed.
var2value(fixed, values, var) ==
    IF var \in DOMAIN fixed THEN fixed[var] ELSE values[var]

\* The variables that are parameters: the ones that are not fixed, apart
\* from the initial size of an epoch whose dynamics is sudden.
get_number_of_parameters_all(fixed, values) == Cardinality(dm_variables)
get_number_of_parameters(fixed, values) ==
    LET unused == {init_size_args[d] :
                      d \in {x \in DOMAIN init_size_args :
                                var2value(fixed, values, x) = "Sud"}}
    IN  Cardinality({v \in dm_variables :
                        v \notin DOMAIN fixed /\ v \notin unused})

\* What a method of the model gives back: the bookkeeping and the error.
Returned(fixed) == [fixed_values |-> fixed, error |-> NoException]
Raised(fixed) == [fixed_values |-> fixed, error |-> "ValueError"]

\* dm.fix_variable(var, value)
fix_variable_unchecked(fixed, var, value) ==
    Returned([x \in DOMAIN fixed \cup {var} |->
                 IF x = var THEN value ELSE fixed[x]])
fix_variable(fixed, var, value) ==
    IF var \notin dm_variables THEN Raised(fixed)
    ELSE Returned([x \in DOMAIN fixed \cup {var} |->
                      IF x = var THEN value ELSE fixed[x]])

\* dm.unfix_variable(var)
unfix_variable_kept(fixed, var) ==
    IF var \notin DOMAIN fixed THEN Raised(fixed) ELSE Returned(fixed)
unfix_variable(fixed, var) ==
    IF var \notin DOMAIN fixed THEN Raised(fixed)
    ELSE Returned([x \in DOMAIN fixed \ {var} |-> fixed[x]])

\* dm.fix_dynamics(values): every dynamics variable is fixed to its value.
fix_dynamics(fixed, values) ==
    Returned([x \in DOMAIN fixed \cup DynamicVariables |->
                 IF x \in DynamicVariables THEN values[x] ELSE fixed[x]])

\* dm.unfix_dynamics(): the dynamics variables that are fixed are unfixed.
unfix_dynamics(fixed) ==
    Returned([x \in DOMAIN fixed \ DynamicVariables |-> fixed[x]])

\* What no method of dm touches.
search_vars ==
    <<stop_checks, checkpoint_vars, log_file, coordinator_vars, pc,
      cur_iteration, model, best_model, heap, shared_dict, sigint_pending,
      exception>>

\* A call of a method of dm: the model takes the bookkeeping the method gives
\* back, the caller the error.
Call(op, var, result) ==
    /\ fixed_values' = result.fixed_values
    /\ dm_call' = [op |-> op, var |-> var, error |-> result.error]
    /\ UNCHANGED search_vars

FixVariable(var, value) ==
    Call("fix_variable", var, fix_variable(fixed_values, var, value))

UnfixVariable(var) ==
    Call("unfix_variable", var, unfix_variable(fixed_values, var))

FixDynamics(values) ==
    Call("fix_dynamics", "", fix_dynamics(fixed_values, values))

UnfixDynamics ==
    Call("unfix_dynamics", "", unfix_dynamics(fixed_values))

NextModel ==
    \/ \E var \in AllVariables :
           \E value \in PossibleValues(var) : FixVariable(var, value)
    \/ \E var \in AllVariables : UnfixVariable(var)
    \/ \E values \in Dics : FixDynamics(values)
    \/ UnfixDynamics

\* The test: dm as built, then calls of its methods in any order.
InitModel == Init /\ params = [processes |-> 1, repeats |-> 0]

SpecModel == InitModel /\ [][NextModel]_vars

\* ----------------------------------------------------------------- claims
BestValue(n) == Deref(best_model[n])
EntryValue(k) == Deref(shared_dict[k])
PublishPcs == {"first_publish", "loop_publish"}

\* C1: within one run the best candidate never gets worse: across every step
\* the fitness of best_model does not increase (lower is better).
C1_BestNeverWorse ==
    [][\A n \in Numbers :
          (best_model[n] # None /\ best_model'[n] # None)
              => get_fitness_func_value(BestValue(n)')
                     <= get_fitness_func_value(BestValue(n))]_vars

\* A run has just replaced its best candidate by a strictly better one: the
\* entry still holds the previous best.
C1_Witness ==
    \E n \in Numbers :
        /\ pc[n] = "loop_publish"
        /\ GA_prefix(n) \in DOMAIN shared_dict
        /\ get_fitness_func_value(BestValue(n))
               < get_fitness_func_value(EntryValue(GA_prefix(n)))

\* C2: at the end of every iteration, the first one included, the entry
\* under the run's prefix equals the engine's best candidate by value.
C2_EntryEqualsBest ==
    \A n \in Numbers :
        pc[n] = "loop_iteration"
            => /\ GA_prefix(n) \in DOMAIN shared_dict
               /\ EntryValue(GA_prefix(n)) = BestValue(n)

\* An iteration of the loop has ended (the current candidate is not the
\* best one) and the entry equals the best candidate.
C2_Witness ==
    \E n \in Numbers :
        /\ pc[n] = "loop_iteration"
        /\ Deref(model[n]) # BestValue(n)
        /\ GA_prefix(n) \in DOMAIN shared_dict
        /\ EntryValue(GA_prefix(n)) = BestValue(n)

\* C3: a published entry is an independent copy: it is no reference to an
\* object of an engine; a step in which run n does not move (the holder
\* mutating an entry is one) leaves n's best candidate unchanged; a step of
\* run n other than a publication leaves every entry unchanged.
C3_Isolation ==
    /\ [](\A k \in DOMAIN shared_dict : \A n \in Numbers :
             shared_dict[k] \notin {model[n], best_model[n]})
    /\ [][\A n \in Numbers :
             (pc'[n] = pc[n] /\ best_model[n] # None)
                 => (best_model'[n] # None /\ BestValue(n)' = BestValue(n))]_vars
    /\ [][\A n \in Numbers :
             (Executing(n) /\ pc[n] \notin PublishPcs /\ pc'[n] # pc[n])
                 => \A k \in DOMAIN shared_dict :
                        /\ k \in DOMAIN shared_dict'
                        /\ EntryValue(k)' = EntryValue(k)]_vars

\* A published entry was mutated: it differs from the best candidate of its
\* run at the end of an iteration.
C3_Witness ==
    \E n \in Numbers :
        /\ pc[n] = "loop_iteration"
        /\ GA_prefix(n) \in DOMAIN shared_dict
        /\ EntryValue(GA_prefix(n)) # BestValue(n)

\* The snapshot {w1: 5.0, w2: 2.0, w3: 8.0} as the list print_best_solution_now
\* builds from it.
ExampleSnapshot ==
    <<<<str(1), [params |-> 0, fitness |-> 5]>>,
      <<str(2), [params |-> 0, fitness |-> 2]>>,
      <<str(3), [params |-> 0, fitness |-> 8]>>>>

\* C4: the ranking handed to the report is a permutation of the snapshot's
\* (run, best candidate) entries in ascending order of fitness; the
\* snapshot {w1: 5.0, w2: 2.0, w3: 8.0} is ranked [w2, w1, w3].
C4_Ranking ==
    /\ report_pc = "print" =>
        /\ Len(all_models) = Cardinality(DOMAIN all_models_data)
        /\ \A k \in DOMAIN all_models_data :
              \E i \in 1..Len(all_models) :
                  all_models[i] = <<k, all_models_data[k]>>
        /\ \A i, j \in 1..Len(all_models) :
              i < j => get_fitness_func_value(all_models[i][2])
                           <= get_fitness_func_value(all_models[j][2])
    /\ report_pc = "print" =>
          [i \in 1..3 |-> sorted(ExampleSnapshot)[i][1]]
              = <<str(2), str(1), str(3)>>

\* A report ranks run 2 before run 1.
C4_Witness ==
    /\ report_pc = "print"
    /\ Len(all_models) = 2
    /\ all_models[1][1] = str(2)
    /\ get_fitness_func_value(all_models[1][2])
           < get_fitness_func_value(all_models[2][2])

\* C5: once the interrupt has reached the coordinator, the coordinator's
\* next step is the cancellation (no wait, no report, no completion); the
\* cancellation leaves no run executing or queued, the pool terminated and
\* 'KeyboardInterrupt' as the reported error; a cancelled coordinator stays
\* cancelled.
C5_Cancellation ==
    /\ [][main_sigint => main_pc' \in {main_pc, "cancelled"}]_vars
    /\ [][(main_pc' = "cancelled" /\ main_pc # "cancelled")
             => /\ main_sigint
                /\ pool_state' = "terminated"
                /\ \A n \in Numbers : ~Executing(n)' /\ pc'[n] # "queued"
                /\ error_message' = Message(0, "KeyboardInterrupt")]_vars
    /\ [][main_pc = "cancelled" => main_pc' = "cancelled"]_vars
    /\ [](main_pc = "cancelled" => \A n \in Numbers : ~Executing(n))

\* The coordinator was cancelled while runs were in progress.
C5_Witness ==
    /\ main_pc = "cancelled"
    /\ shared_dict # << >>
    /\ \E n \in Numbers : pc[n] = "terminated"

C7_ErrorNamesWorker ==
    main_pc = "failed" =>
        \E n \in Numbers :
            /\ exception[n] # NoException
            /\ error_message = Message(n, exception[n])

\* C8: the stop predicate is evaluated once per iteration: a run that has
\* ended an iteration has evaluated it (and a run for which it holds has
\* stopped iterating).
C8_StopPredicate ==
    \A n \in Numbers :
        pc[n] = "loop_iteration"
            => /\ stop_checks[n] >= cur_iteration[n]
               /\ ~is_stoped(n)

\* C9: the SIGINT handler of a worker changes neither the position of its
\* run nor its engine nor the dictionary; a run is terminated only by the
\* coordinator terminating the pool, and never raises because of a signal.
C9_WorkerIgnoresSigint ==
    /\ [][\A n \in Numbers :
             ((n \in sigint_pending) # (n \in sigint_pending')
                 /\ pool_state' = "running")
                 => /\ pc'[n] = pc[n]
                    /\ cur_iteration'[n] = cur_iteration[n]
                    /\ model'[n] = model[n]
                    /\ best_model'[n] = best_model[n]
                    /\ heap'[n] = heap[n]
                    /\ shared_dict' = shared_dict]_vars
    /\ [][\A n \in Numbers :
             (Executing(n) /\ ~Executing(n)')
                 => \/ /\ pc'[n] = "terminated"
                       /\ pool_state' = "terminated"
                       /\ main_pc' \in {"failed", "cancelled"}
                    \/ /\ pc'[n] = "raised"
                       /\ n \notin sigint_pending
                       /\ exception'[n] \in ExceptionTexts]_vars

\* A signal is pending for a worker in the middle of an iteration whose
\* coordinator has received none.
C9_Witness ==
    \E n \in Numbers :
        /\ n \in sigint_pending
        /\ pc[n] = "loop_compare"
        /\ ~main_sigint

\* C10: the runs have pairwise distinct keys, and an entry is created or
\* changed only by a publication step of the run whose number is the key.
C10_SingleWriter ==
    /\ [](\A i, j \in Numbers : i # j => GA_prefix(i) # GA_prefix(j))
    /\ [][\A k \in DOMAIN shared_dict' :
             (k \notin DOMAIN shared_dict \/ EntryValue(k)' # EntryValue(k))
                 => \E n \in Numbers :
                        /\ k = str(n)
                        /\ pc[n] \in PublishPcs
                        /\ pc'[n] = "loop_iteration"]_vars

\* Two runs have published, each under its own key.
C10_Witness ==
    /\ DOMAIN shared_dict = {str(1), str(2)}
    /\ \A n \in {1, 2} : shared_dict[str(n)][1] = n

\* The registry by value: what a reader of shared_dict sees.
RegistryValues == [k \in DOMAIN shared_dict |-> EntryValue(k)]

\* The (run, candidate) pairs of a ranking.
Ranked == {all_models[i] : i \in 1..Len(all_models)}

\* C11: no step of a report (from the call to the return) changes the
\* registry; while a report is between its copy and its return, the steps of
\* the workers change neither the copy nor the ranking, and the ranking
\* printed consists of the entries of the copy, whatever the workers have
\* written since.
C11_ReportFrame ==
    /\ [][report_pc' # report_pc => RegistryValues' = RegistryValues]_vars
    /\ [][(report_pc \in {"sort", "print"} /\ report_pc' = report_pc)
             => /\ all_models_data' = all_models_data
                /\ all_models' = all_models]_vars
    /\ [](report_pc = "print"
             => Ranked = {<<k, all_models_data[k]>> :
                             k \in DOMAIN all_models_data})

\* A run has published a better candidate after the report took its copy:
\* the ranking about to be printed differs from the registry.
C11_Witness ==
    /\ report_pc = "print"
    /\ RegistryValues # all_models_data
    /\ \E k \in DOMAIN all_models_data :
          get_fitness_func_value(EntryValue(k))
              < get_fitness_func_value(all_models_data[k])

\* The runs that have published.
PublishedRuns == {n \in Numbers : GA_prefix(n) \in DOMAIN shared_dict}

\* C12: a report called on an empty registry returns at once, to the wait
\* or to the closing messages, with no ranking built, nothing printed and
\* no error; a report called on a registry with some entries copies exactly
\* these, ranks exactly the runs that had published and returns without an
\* error, whatever number of runs has not published.
C12_PartialRegistry ==
    /\ [][(report_pc = "call" /\ ~main_sigint /\ report_pc' # report_pc)
             => IF shared_dict = << >>
                THEN /\ report_pc' = "none"
                     /\ main_pc' = AfterReport
                     /\ all_models' = << >>
                     /\ error_message' = error_message
                ELSE /\ report_pc' = "sort"
                     /\ all_models_data' = RegistryValues
                     /\ main_pc' = main_pc
                     /\ error_message' = error_message]_vars
    /\ [](report_pc \in {"sort", "print"} => DOMAIN all_models_data # {})
    /\ [](report_pc = "print"
             => /\ {x[1] : x \in Ranked} = DOMAIN all_models_data
                /\ DOMAIN all_models_data \subseteq DOMAIN shared_dict)
    /\ [][(report_pc \in {"sort", "print"} /\ ~main_sigint
              /\ report_pc' # report_pc)
             => /\ main_pc' \in {main_pc, AfterReport}
                /\ error_message' = error_message]_vars

\* A report ranks the one run that has published while another run is in
\* its first iteration.
C12_Witness ==
    /\ report_pc = "print"
    /\ Len(all_models) = 1
    /\ \E n \in Numbers :
          /\ n \notin PublishedRuns
          /\ pc[n] \in {"first_iteration", "first_best", "first_publish"}

\* No file is at the path of run `load`'s checkpoint.
Missing(load) == load \notin DOMAIN pickle_file \/ ~pickle_file[load].exists

\* The candidates a checkpoint file holds.
Checkpointed(n) ==
    IF pickle_file[n].data = << >> THEN {}
    ELSE LET v == pickle_load(pickle_file[n].data)
         IN  {v[i] : i \in 1..Len(v)}

\* C13: saving the state of an engine that has a best candidate raises
\* nothing and leaves a file that holds the best candidate with its
\* parameter values and fitness; loading a file that a save has left raises
\* nothing and gives the engine the candidates of the file.
C13_RoundTrip ==
    [][\A n \in Numbers :
          (pickle_call'[n] # pickle_call[n] /\ best_model[n] # None)
              => /\ pickle_call'[n].error = NoException
                 /\ pickle_call'[n].op = "save"
                       => BestValue(n) \in Checkpointed(n)'
                 /\ (pickle_call'[n].op = "load"
                        /\ ~Missing(pickle_call'[n].load))
                       => /\ final_models'[n].set
                          /\ BestValue(n)' = BestValue(n)]_vars

\* C14: a call of pickle_final_models with a path at which no file is raises
\* nothing and leaves the engine as it was: its position, counters, current
\* and best candidate, final_models, and the files.
C14_LoadMissing ==
    [][\A n \in Numbers :
          (/\ pickle_call'[n] # pickle_call[n]
           /\ pickle_call'[n].op = "load"
           /\ Missing(pickle_call'[n].load))
              => /\ pickle_call'[n].error = NoException
                 /\ <<pc, cur_iteration, first_iteration, model, best_model,
                      heap, final_models, pickle_file, log_file, shared_dict,
                      exception>>'
                      = <<pc, cur_iteration, first_iteration, model,
                          best_model, heap, final_models, pickle_file,
                          log_file, shared_dict, exception>>]_vars

\* An engine with a best candidate was asked to load its own checkpoint
\* before any was written.
C14_Witness ==
    \E n \in Numbers :
        /\ pickle_call[n].op = "load"
        /\ pickle_call[n].load = n
        /\ Missing(n)
        /\ pickle_call[n].error = NoException
        /\ best_model[n] # None

\* The dynamics variables with the values the model uses for them now.
DynamicsNow(fixed) == [d \in DynamicVariables |-> fixed[d]]

\* C15: in every state of the bookkeeping, fixing a variable of the model
\* raises nothing; if the variable was not fixed, unfixing it afterwards
\* raises nothing and get_number_of_parameters is what it was before the
\* fix, for all values; if it was fixed, the fix changes its stored value
\* and nothing else.  In the model as built the count is 8, and 7 while Dyn
\* alone is fixed.
C15_FixUnfix ==
    /\ \A var \in dm_variables : \A value \in PossibleValues(var) :
          LET fix == fix_variable(fixed_values, var, value)
              unfix == unfix_variable(fix.fixed_values, var)
          IN  /\ fix.error = NoException
              /\ var \notin DOMAIN fixed_values
                    => /\ unfix.error = NoException
                       /\ unfix.fixed_values = fixed_values
                       /\ \A values \in Dics :
                             get_number_of_parameters(unfix.fixed_values,
                                                      values)
                               = get_number_of_parameters(fixed_values,
                                                          values)
              /\ var \in DOMAIN fixed_values
                    => fix.fixed_values = [fixed_values EXCEPT ![var] = value]
    /\ fixed_values = << >>
          => /\ get_number_of_parameters(fixed_values, dic) = 8
             /\ get_number_of_parameters(
                    fix_variable(fixed_values, "Dyn", "Exp").fixed_values,
                    dic) = 7
    /\ (dm_call.op = "unfix_variable" /\ dm_call.error = NoException)
          => dm_call.var \notin DOMAIN fixed_values

\* Dyn was fixed and unfixed again: nothing is fixed, the count is 8.
C15_Witness ==
    /\ dm_call = [op |-> "unfix_variable", var |-> "Dyn",
                  error |-> NoException]
    /\ fixed_values = << >>
    /\ get_number_of_parameters(fixed_values, dic) = 8

\* C16: fix_variable with a variable outside of the model raises ValueError,
\* unfix_variable with a variable that is not fixed raises ValueError, and
\* a call that raises leaves the bookkeeping, hence the count, as it was.
C16_ConfigurationErrors ==
    /\ [][(dm_call'.op = "fix_variable" /\ dm_call'.var \notin dm_variables)
             => dm_call'.error = "ValueError"]_vars
    /\ [][(dm_call'.op = "unfix_variable"
              /\ dm_call'.var \notin DOMAIN fixed_values)
             => dm_call'.error = "ValueError"]_vars
    /\ [][dm_call'.error # NoException
             => /\ fixed_values' = fixed_values
                /\ \A values \in Dics :
                      get_number_of_parameters(fixed_values', values)
                        = get_number_of_parameters(fixed_values, values)]_vars
    /\ [](DOMAIN fixed_values \subseteq dm_variables)

\* nu3 was to be unfixed in a model with a fixed variable.
C16_Witness ==
    /\ dm_call = [op |-> "unfix_variable", var |-> "nu3",
                  error |-> "ValueError"]
    /\ fixed_values # << >>

C18_EarliestMinimum ==
    /\ [](\A n \in Numbers :
             pc[n] = "first_publish" => BestValue(n) = Deref(model[n]))
    /\ [][\A n \in Numbers :
             (pc[n] = "loop_compare"
                 /\ pc'[n] \in {"loop_publish", "loop_iteration"})
                 => IF get_fitness_func_value(Deref(model[n]))
                         < get_fitness_func_value(BestValue(n))
                    THEN /\ BestValue(n)' = Deref(model[n])
                         /\ pc'[n] = "loop_publish"
                    ELSE /\ BestValue(n)' = BestValue(n)
                         /\ pc'[n] = "loop_iteration"
                         /\ RegistryValues' = RegistryValues]_vars
    /\ [][\A n \in Numbers :
             (best_model[n] # None /\ best_model'[n] # None
                 /\ BestValue(n)' # BestValue(n))
                 => /\ pc[n] = "loop_compare"
                    /\ get_fitness_func_value(BestValue(n)')
                         < get_fitness_func_value(BestValue(n))]_vars

\* An iteration has ended whose candidate has the fitness of the best one
\* and other parameter values: the earlier candidate is still the best.
C18_Witness ==
    \E n \in Numbers :
        /\ pc[n] = "loop_iteration"
        /\ cur_iteration[n] > 0
        /\ get_fitness_func_value(Deref(model[n]))
              = get_fitness_func_value(BestValue(n))
        /\ Deref(model[n]) # BestValue(n)

\* The steps that end an iteration of run n: the publication, or the
\* comparison that finds nothing to publish.
EndsIteration(n) ==
    /\ pc[n] \in {"first_publish", "loop_compare", "loop_publish"}
    /\ pc'[n] = "loop_iteration"

\* C19: the step that ends an iteration raises cur_iteration by one, so
\* that cur_iteration - first_iteration counts the iterations made; the
\* index that an iteration writes to the log is greater than the index in
\* the line before it.
C19_IterationIndex ==
    /\ [][\A n \in Numbers :
             EndsIteration(n) => cur_iteration'[n] = cur_iteration[n] + 1]_vars
    /\ [][\A n \in Numbers :
             (log_file[n] # << >> /\ log_file'[n] # << >>
                 /\ pc[n] = "loop_iteration" /\ pc'[n] = "loop_compare")
                 => log_file'[n][1] > log_file[n][1]]_vars
    /\ [](\A n \in Numbers :
             (pc[n] = "loop_iteration" /\ log_file[n] # << >>)
                 => cur_iteration[n] - first_iteration[n] = log_file[n][1] + 1)

\* C20: in every state of every engine, the one before its first iteration
\* has ended included, the number mean_time divides by is not zero (it is
\* positive).
C20_MeanTimeDivisor ==
    \A n \in Numbers :
        /\ mean_time_divisor(n) # 0
        /\ mean_time_divisor(n) > 0

\* An engine in its first iteration: no iteration has been completed.
C20_Witness ==
    \E n \in Numbers :
        /\ pc[n] \in {"first_iteration", "first_best", "first_publish"}
        /\ cur_iteration[n] = first_iteration[n]
        /\ mean_time_divisor(n) = 1

\* Neither a cancellation nor a failure: no interrupt has reached the
\* coordinator or a worker, no run has raised, the pool was not terminated.
Undisturbed ==
    /\ ~main_sigint
    /\ sigint_pending = {}
    /\ main_pc \notin {"failed", "cancelled"}
    /\ pool_state = "running"
    /\ \A n \in Numbers : pc[n] # "raised"

\* C21: never more runs execute than the pool has processes; and in a
\* behaviour without cancellation and failure every submitted run, also
\* when there are more runs than processes, eventually executes and
\* eventually has an entry under its key.
C21_EveryRunStarts ==
    /\ [](Cardinality({n \in Numbers : Executing(n)}) <= params.processes)
    /\ \A n \in 1..MaxRepeats :
          []Undisturbed
              => /\ (n \in Numbers /\ pc[n] = "queued")
                       ~> (n \in Numbers /\ Executing(n))
                 /\ (n \in Numbers /\ pc[n] = "queued")
                       ~> (GA_prefix(n) \in DOMAIN shared_dict)

====
